---- MODULE Spec2Model ----
(***************************************************************************)
(* The notes/folders storage hook (src/src/hooks/use-note-storage.tsx) and *)
(* the page handlers that drive it (src/src/pages/Index.tsx,               *)
(* src/src/components/NoteEditorNew.tsx).                                  *)
(*                                                                         *)
(* Representation.  A JavaScript object is a function from its defined     *)
(* keys to their values: a key whose value is undefined is a key that is   *)
(* not in the DOMAIN.  Text that the code inspects (title, content, tags,  *)
(* summary) is a sequence of one-character strings; identifiers are TLA+   *)
(* strings.  A Date is its time value in milliseconds; the Invalid Date    *)
(* (time value NaN) is InvalidDate.  A value that may be null is a         *)
(* sequence of length at most one.                                         *)
(***************************************************************************)
EXTENDS Integers, Sequences, FiniteSets, TLC

VARIABLES
  notes,          \* useState<Note[]>            use-note-storage.tsx:69
  folders,        \* useState<Folder[]>          use-note-storage.tsx:70
  isLoading,      \* useState(true)              use-note-storage.tsx:71
  lastSync,       \* useState<Date | null>       use-note-storage.tsx:72
  localStorage,   \* the three persisted entries use-note-storage.tsx:24-28
  now,            \* the wall clock read by Date.now() and new Date()
  activeNote,     \* useState<Note | null>       Index.tsx:38
  activeFolderId, \* useState("all")             Index.tsx:39
  isOnline,       \* useState(navigator.onLine) Index.tsx:41
  isSyncing,      \* useState(false)            Index.tsx:42
  syncs,          \* the syncNotes calls: how many were started, and those
                  \* whose timer has not fired yet, oldest first
  op              \* history: the last operation, its argument and the
                  \* value it returned

vars == <<notes, folders, isLoading, lastSync, localStorage, now,
          activeNote, activeFolderId, isOnline, isSyncing, syncs, op>>

(***************************************************************************)
(* Bounds of the model.                                                    *)
(***************************************************************************)
MaxNotes == 3     \* the create path is taken only below this length
MaxFolders == 7   \* createFolder is taken only below this length
MaxClock == 3     \* the clock stops advancing at this value
MaxSyncs == 3     \* syncNotes is called at most this many times

(***************************************************************************)
(* JavaScript helpers.                                                     *)
(***************************************************************************)
Has(o, k) == k \in DOMAIN o

\* o.k || dflt, for a text or list field (the empty string is falsy; an
\* empty array is truthy, and equals the default used for it)
OrElse(o, k, dflt) == IF Has(o, k) /\ o[k] # <<>> THEN o[k] ELSE dflt

\* o.k || dflt, for an identifier field
OrElseId(o, k, dflt) == IF Has(o, k) /\ o[k] # "" THEN o[k] ELSE dflt

\* the object o restricted to the keys ks it defines
Pick(o, ks) == [k \in (DOMAIN o) \cap ks |-> o[k]]

\* { ...o, ...over }
Spread(o, over) ==
  [k \in (DOMAIN o) \cup (DOMAIN over) |-> IF Has(over, k) THEN over[k] ELSE o[k]]

Null == <<>>
Some(v) == <<v>>

InvalidDate == -1

\* the characters matched by \s that occur in the model's texts
IsWhitespace(c) == c \in {" ", "\n", "\t"}

\* String.prototype.split(/\s+/): the pieces between maximal runs of
\* whitespace, empty first and last pieces included.  A piece starts at
\* the head of the text and after every run; it ends before the next
\* whitespace character or at the end of the text.
SplitWhitespace(s) ==
  LET n == Len(s)
      IsStart(k) ==
        \/ k = 1
        \/ IsWhitespace(s[k - 1]) /\ (k = n + 1 \/ ~IsWhitespace(s[k]))
      starts == SelectSeq([k \in 1..(n + 1) |-> k], IsStart)
      End(p) == CHOOSE e \in p..(n + 1) :
                  /\ e = n + 1 \/ IsWhitespace(s[e])
                  /\ \A m \in p..(e - 1) : ~IsWhitespace(s[m])
  IN [j \in 1..Len(starts) |-> SubSeq(s, starts[j], End(starts[j]) - 1)]

\* WordCount without the filter: the empty pieces are counted too
WordCount_Unfiltered(content) == Len(SplitWhitespace(content))

\* content.split(/\s+/).filter(word => word.length > 0).length
WordCount(content) ==
  Len(SelectSeq(SplitWhitespace(content), LAMBDA word : Len(word) > 0))

(***************************************************************************)
(* Program constants.                                                      *)
(***************************************************************************)
Untitled == <<"U", "n", "t", "i", "t", "l", "e", "d">>

UntitledNote ==
  <<"U", "n", "t", "i", "t", "l", "e", "d", " ", "N", "o", "t", "e">>

\* DEFAULT_FOLDERS; createdAt is the time the module was evaluated
DEFAULT_FOLDERS(t) ==
  << [id |-> "all", name |-> "All Notes", color |-> "blue",
      icon |-> "FileText", createdAt |-> t],
     [id |-> "quick-notes", name |-> "Quick Notes", color |-> "green",
      icon |-> "Zap", createdAt |-> t],
     [id |-> "meetings", name |-> "Meetings", color |-> "purple",
      icon |-> "Users", createdAt |-> t],
     [id |-> "ideas", name |-> "Ideas", color |-> "yellow",
      icon |-> "Lightbulb", createdAt |-> t],
     [id |-> "tasks", name |-> "Tasks", color |-> "red",
      icon |-> "CheckSquare", createdAt |-> t] >>

\* the body of the welcome note; each emoji is written as the one
\* non-whitespace character "@"
WelcomeContent ==
  <<
     "@", " ", "W", "e", "l", "c", "o", "m", "e", " ", "t", "o", " ", "y",
     "o", "u", "r", " ", "e", "n", "h", "a", "n", "c", "e", "d", " ", "A",
     "I", "-", "p", "o", "w", "e", "r", "e", "d", " ", "n", "o", "t", "e",
     "-", "t", "a", "k", "i", "n", "g", " ", "a", "p", "p", "!", "\n", "\n",
     "@", " ", "*", "*", "N", "e", "w", " ", "F", "e", "a", "t", "u", "r",
     "e", "s", ":", "*", "*", "\n", "\n", "@", " ", "*", "*", "S", "m", "a",
     "r", "t", " ", "O", "r", "g", "a", "n", "i", "z", "a", "t", "i", "o",
     "n", "*", "*", ":", " ", "N", "o", "t", "e", "s", " ", "a", "r", "e",
     " ", "n", "o", "w", " ", "o", "r", "g", "a", "n", "i", "z", "e", "d",
     " ", "i", "n", " ", "f", "o", "l", "d", "e", "r", "s", " ", "w", "i",
     "t", "h", " ", "A", "I", "-", "p", "o", "w", "e", "r", "e", "d", " ",
     "c", "a", "t", "e", "g", "o", "r", "i", "z", "a", "t", "i", "o", "n",
     "\n", "\n", "@", " ", "*", "*", "D", "a", "r", "k", " ", "M", "o", "d",
     "e", "*", "*", ":", " ", "T", "o", "g", "g", "l", "e", " ", "b", "e",
     "t", "w", "e", "e", "n", " ", "l", "i", "g", "h", "t", " ", "a", "n",
     "d", " ", "d", "a", "r", "k", " ", "t", "h", "e", "m", "e", "s", " ",
     "i", "n", " ", "t", "h", "e", " ", "h", "e", "a", "d", "e", "r", "\n",
     "\n", "@", " ", "*", "*", "O", "f", "f", "l", "i", "n", "e", " ", "M",
     "o", "d", "e", "*", "*", ":", " ", "Y", "o", "u", "r", " ", "n", "o",
     "t", "e", "s", " ", "a", "r", "e", " ", "a", "u", "t", "o", "m", "a",
     "t", "i", "c", "a", "l", "l", "y", " ", "s", "a", "v", "e", "d", " ",
     "l", "o", "c", "a", "l", "l", "y", " ", "a", "n", "d", " ", "w", "i",
     "l", "l", " ", "s", "y", "n", "c", " ", "w", "h", "e", "n", " ", "o",
     "n", "l", "i", "n", "e", "\n", "\n", "@", " ", "*", "*", "A", "d", "v",
     "a", "n", "c", "e", "d", " ", "S", "e", "a", "r", "c", "h", "*", "*",
     ":", " ", "F", "u", "l", "l", "-", "t", "e", "x", "t", " ", "s", "e",
     "a", "r", "c", "h", " ", "w", "i", "t", "h", " ", "h", "i", "g", "h",
     "l", "i", "g", "h", "t", "i", "n", "g", " ", "a", "c", "r", "o", "s",
     "s", " ", "a", "l", "l", " ", "y", "o", "u", "r", " ", "n", "o", "t",
     "e", "s", "\n", "\n", "@", " ", "*", "*", "A", "I", " ", "S", "u", "m",
     "m", "a", "r", "i", "e", "s", "*", "*", ":", " ", "G", "e", "t", " ",
     "a", "u", "t", "o", "m", "a", "t", "i", "c", " ", "s", "u", "m", "m",
     "a", "r", "i", "e", "s", " ", "a", "n", "d", " ", "a", "c", "t", "i",
     "o", "n", " ", "i", "t", "e", "m", "s", " ", "f", "o", "r", " ", "y",
     "o", "u", "r", " ", "n", "o", "t", "e", "s", "\n", "\n", "@", " ", "*",
     "*", "V", "o", "i", "c", "e", " ", "R", "e", "c", "o", "r", "d", "i",
     "n", "g", "*", "*", ":", " ", "C", "o", "n", "t", "i", "n", "u", "e",
     " ", "u", "s", "i", "n", "g", " ", "v", "o", "i", "c", "e", "-", "t",
     "o", "-", "t", "e", "x", "t", " ", "f", "o", "r", " ", "h", "a", "n",
     "d", "s", "-", "f", "r", "e", "e", " ", "n", "o", "t", "e", "-", "t",
     "a", "k", "i", "n", "g", "\n", "\n", "S", "t", "a", "r", "t", " ", "e",
     "x", "p", "l", "o", "r", "i", "n", "g", " ", "t", "h", "e", "s", "e",
     " ", "f", "e", "a", "t", "u", "r", "e", "s", " ", "a", "n", "d", " ",
     "b", "o", "o", "s", "t", " ", "y", "o", "u", "r", " ", "p", "r", "o",
     "d", "u", "c", "t", "i", "v", "i", "t", "y", "!"
  >>

WelcomeSummary ==
  <<
     "I", "n", "t", "r", "o", "d", "u", "c", "t", "i", "o", "n", " ", "t",
     "o", " ", "n", "e", "w", " ", "A", "I", " ", "N", "o", "t", "e", "s",
     " ", "P", "r", "o", " ", "f", "e", "a", "t", "u", "r", "e", "s", " ",
     "i", "n", "c", "l", "u", "d", "i", "n", "g", " ", "s", "m", "a", "r",
     "t", " ", "o", "r", "g", "a", "n", "i", "z", "a", "t", "i", "o", "n",
     ",", " ", "d", "a", "r", "k", " ", "m", "o", "d", "e", ",", " ", "o",
     "f", "f", "l", "i", "n", "e", " ", "s", "y", "n", "c", ",", " ", "a",
     "d", "v", "a", "n", "c", "e", "d", " ", "s", "e", "a", "r", "c", "h",
     ",", " ", "A", "I", " ", "s", "u", "m", "m", "a", "r", "i", "e", "s",
     ",", " ", "a", "n", "d", " ", "v", "o", "i", "c", "e", " ", "r", "e",
     "c", "o", "r", "d", "i", "n", "g", "."
  >>

WelcomeTags ==
  << <<"w", "e", "l", "c", "o", "m", "e">>,
     <<"f", "e", "a", "t", "u", "r", "e", "s">>,
     <<"g", "e", "t", "t", "i", "n", "g", "-", "s", "t", "a", "r", "t", "e", "d">> >>

WelcomeActionItems ==
  << "Explore the folder organization system",
     "Try the dark mode toggle",
     "Test voice recording functionality",
     "Use AI summarization on longer notes" >>

WelcomeTitle ==
  <<"W", "e", "l", "c", "o", "m", "e", " ", "t", "o", " ", "A", "I", " ", "N", "o", "t", "e", "s", " ", "P",
   "r", "o">>

\* welcomeNote filed under no folder
welcomeNote_Unfiled(t) ==
  [id |-> "1", title |-> WelcomeTitle,
   content |-> WelcomeContent, tags |-> WelcomeTags,
   createdAt |-> t, updatedAt |-> t,
   wordCount |-> 95, summary |-> WelcomeSummary,
   actionItems |-> WelcomeActionItems]

welcomeNote(t) ==
  [id |-> "1", title |-> WelcomeTitle,
   content |-> WelcomeContent, tags |-> WelcomeTags,
   folder |-> "quick-notes", createdAt |-> t, updatedAt |-> t,
   wordCount |-> 95, summary |-> WelcomeSummary,
   actionItems |-> WelcomeActionItems]

(***************************************************************************)
(* localStorage and JSON.  An entry is absent (getItem returns null), a    *)
(* string JSON.parse or the mapping after it rejects, or the JSON text of  *)
(* a value.  JSON.stringify writes a Date as its ISO string and the        *)
(* Invalid Date as null; new Date(x) reads an ISO string back to the same  *)
(* time value, null as time value 0 and undefined as the Invalid Date.     *)
(***************************************************************************)
Absent == [kind |-> "absent"]
Malformed == [kind |-> "malformed"]
Json(v) == [kind |-> "json", val |-> v]

\* the lastSync entry: the ISO string of a time, written as it is
Iso(t) == [kind |-> "iso", val |-> t]

JsonNull == [null |-> TRUE]

DateToJSON(d) == IF d = InvalidDate THEN JsonNull ELSE [iso |-> d]

NewDate(o, k) ==
  IF ~Has(o, k) THEN InvalidDate
  ELSE IF o[k] = JsonNull THEN 0 ELSE o[k].iso

DateKeys == {"createdAt", "updatedAt"}

\* JSON.stringify of one note or folder
ObjToJSON(o) ==
  [k \in DOMAIN o |-> IF k \in DateKeys THEN DateToJSON(o[k]) ELSE o[k]]

\* JSON.stringify(notes), JSON.stringify(folders)
Stringify(list) == Json([i \in 1..Len(list) |-> ObjToJSON(list[i])])

\* ({ ...note, createdAt: new Date(note.createdAt),
\*             updatedAt: new Date(note.updatedAt) })
ReviveNote(j) ==
  [k \in (DOMAIN j) \cup DateKeys |->
     IF k \in DateKeys THEN NewDate(j, k) ELSE j[k]]

\* ({ ...folder, createdAt: new Date(folder.createdAt) })
ReviveFolder(j) ==
  [k \in (DOMAIN j) \cup {"createdAt"} |->
     IF k = "createdAt" THEN NewDate(j, k) ELSE j[k]]

parsedNotes(entry) == [i \in 1..Len(entry.val) |-> ReviveNote(entry.val[i])]
parsedFolders(entry) == [i \in 1..Len(entry.val) |-> ReviveFolder(entry.val[i])]

\* the effect that saves the notes: runs after every render in which notes
\* or isLoading changed, with the values of that render
SaveNotesEffect(store, ns, loading) ==
  IF ~loading /\ Len(ns) > 0
  THEN [store EXCEPT !.notes = Stringify(ns)]
  ELSE store

\* the effect that saves the folders
SaveFoldersEffect(store, fs, loading) ==
  IF ~loading
  THEN [store EXCEPT !.folders = Stringify(fs)]
  ELSE store

(***************************************************************************)
(* saveNote                                                                *)
(***************************************************************************)
\* the create path is taken when noteData.id is undefined or empty
IsCreate(noteData) == ~Has(noteData, "id") \/ noteData.id = ""

newNote(noteData, t) ==
  Spread(Pick(noteData, {"summary", "actionItems"}),
         [id |-> ToString(t),
          title |-> OrElse(noteData, "title", Untitled),
          content |-> OrElse(noteData, "content", <<>>),
          tags |-> OrElse(noteData, "tags", <<>>),
          folder |-> OrElseId(noteData, "folder", "quick-notes"),
          createdAt |-> t,
          updatedAt |-> t,
          wordCount |-> WordCount(OrElse(noteData, "content", <<>>))])

updatedNote(noteData, t) ==
  Spread(noteData,
         [updatedAt |-> t,
          wordCount |-> WordCount(OrElse(noteData, "content", <<>>))])

\* the value saveNote returns
SaveNoteResult(noteData, t) ==
  IF IsCreate(noteData) THEN newNote(noteData, t) ELSE updatedNote(noteData, t)

\* SaveNoteNotes with the new note put last instead of first
SaveNoteNotes_Append(prev, noteData, t) ==
  IF IsCreate(noteData)
  THEN Append(prev, newNote(noteData, t))
  ELSE [i \in 1..Len(prev) |->
          IF prev[i].id = noteData.id THEN updatedNote(noteData, t) ELSE prev[i]]

\* SaveNoteNotes with an update that matches no note inserting its note
SaveNoteNotes_Upsert(prev, noteData, t) ==
  IF IsCreate(noteData)
  THEN <<newNote(noteData, t)>> \o prev
  ELSE IF \E i \in 1..Len(prev) : prev[i].id = noteData.id
  THEN [i \in 1..Len(prev) |->
          IF prev[i].id = noteData.id THEN updatedNote(noteData, t) ELSE prev[i]]
  ELSE <<updatedNote(noteData, t)>> \o prev

\* the collection after saveNote's setNotes
SaveNoteNotes(prev, noteData, t) ==
  IF IsCreate(noteData)
  THEN <<newNote(noteData, t)>> \o prev
  ELSE [i \in 1..Len(prev) |->
          IF prev[i].id = noteData.id THEN updatedNote(noteData, t) ELSE prev[i]]

(***************************************************************************)
(* categorizeNote                                                          *)
(***************************************************************************)
UpperCase == <<"A", "B", "C", "D", "E", "F", "G", "H", "I", "J", "K", "L", "M",
               "N", "O", "P", "Q", "R", "S", "T", "U", "V", "W", "X", "Y", "Z">>
LowerCase == <<"a", "b", "c", "d", "e", "f", "g", "h", "i", "j", "k", "l", "m",
               "n", "o", "p", "q", "r", "s", "t", "u", "v", "w", "x", "y", "z">>

LowerChar(c) ==
  IF \E i \in 1..Len(UpperCase) : UpperCase[i] = c
  THEN LowerCase[CHOOSE i \in 1..Len(UpperCase) : UpperCase[i] = c]
  ELSE c

\* String.prototype.toLowerCase
ToLowerCase(s) == [i \in 1..Len(s) |-> LowerChar(s[i])]

\* String.prototype.includes
Includes(s, pat) ==
  \E i \in 0..(Len(s) - Len(pat)) :
     \A j \in 1..Len(pat) : s[i + j] = pat[j]

\* categorizeNote with the rule of the tasks tried first
categorizeNote_TasksFirst(content) ==
  LET text == ToLowerCase(content) IN
  IF \/ Includes(text, <<"t", "o", "d", "o">>)
     \/ Includes(text, <<"t", "a", "s", "k">>)
     \/ Includes(text, <<"a", "c", "t", "i", "o", "n", " ", "i", "t", "e", "m">>)
  THEN "tasks"
  ELSE IF \/ Includes(text, <<"m", "e", "e", "t", "i", "n", "g">>)
          \/ Includes(text, <<"a", "g", "e", "n", "d", "a">>)
          \/ Includes(text, <<"d", "i", "s", "c", "u", "s", "s", "e", "d">>)
  THEN "meetings"
  ELSE IF \/ Includes(text, <<"i", "d", "e", "a">>)
          \/ Includes(text, <<"b", "r", "a", "i", "n", "s", "t", "o", "r", "m">>)
          \/ Includes(text, <<"c", "o", "n", "c", "e", "p", "t">>)
  THEN "ideas"
  ELSE "quick-notes"

categorizeNote(content) ==
  LET text == ToLowerCase(content) IN
  IF \/ Includes(text, <<"m", "e", "e", "t", "i", "n", "g">>)
     \/ Includes(text, <<"a", "g", "e", "n", "d", "a">>)
     \/ Includes(text, <<"d", "i", "s", "c", "u", "s", "s", "e", "d">>)
  THEN "meetings"
  ELSE IF \/ Includes(text, <<"i", "d", "e", "a">>)
          \/ Includes(text, <<"b", "r", "a", "i", "n", "s", "t", "o", "r", "m">>)
          \/ Includes(text, <<"c", "o", "n", "c", "e", "p", "t">>)
  THEN "ideas"
  ELSE IF \/ Includes(text, <<"t", "o", "d", "o">>)
          \/ Includes(text, <<"t", "a", "s", "k">>)
          \/ Includes(text, <<"a", "c", "t", "i", "o", "n", " ", "i", "t", "e", "m">>)
  THEN "tasks"
  ELSE "quick-notes"

(***************************************************************************)
(* Inputs.                                                                 *)
(***************************************************************************)
BodyOne == <<"a">>
BodyTwo == <<" ", "a", " ", " ", "b", "\n">>
BodyBlank == <<" ", "\n">>
TitleT == <<"T">>
TagX == <<"x">>
SummaryS == <<"s">>

\* what a caller passes to saveNote to create a note: nothing at all; an
\* empty identifier and an empty body; an empty title, a blank body, an
\* empty folder and a word count of its own; every field but the identifier
NoteInputs ==
  { <<>>,
    [id |-> "", content |-> <<>>],
    [title |-> <<>>, content |-> BodyBlank, folder |-> "", wordCount |-> 7],
    [title |-> TitleT, content |-> BodyTwo, tags |-> <<TagX>>,
     folder |-> "meetings", summary |-> SummaryS, wordCount |-> 1] }

\* what a caller passes to saveNote, besides the identifier, to update one
UpdateInputs == { [content |-> BodyOne] }

\* an identifier that no note carries: the clock never reads 0
GhostId == "0"

NoteIds(ns) == {ns[i].id : i \in 1..Len(ns)}

(***************************************************************************)
(* The state after the hook and the page are constructed on a first run:   *)
(* nothing is stored yet and the mount effect has not run.  The clock      *)
(* starts after 1, the welcome note's identifier: Date.now() is far beyond *)
(* it.  The page starts online; a page started offline is the page after   *)
(* loadData and the offline event.                                         *)
(***************************************************************************)
Init ==
  /\ now = 2
  /\ notes = <<>>
  /\ folders = DEFAULT_FOLDERS(now)
  /\ isLoading = TRUE
  /\ lastSync = Null
  /\ localStorage = [notes |-> Absent, folders |-> Absent, lastSync |-> Absent]
  /\ activeNote = Null
  /\ activeFolderId = "all"
  /\ isOnline = TRUE
  /\ isSyncing = FALSE
  /\ syncs = [started |-> 0, pending |-> <<>>]
  /\ op = [name |-> "init"]

\* time passes
Tick ==
  /\ ~isLoading
  /\ now < MaxClock
  /\ now' = now + 1
  /\ op' = [name |-> "tick"]
  /\ UNCHANGED <<notes, folders, isLoading, lastSync, localStorage,
                 activeNote, activeFolderId,
                 isOnline, isSyncing, syncs>>

(***************************************************************************)
(* Synchronisation.  syncNotes sets a timer and, when it fires, records    *)
(* the time it then reads as the last sync, in memory and in storage.      *)
(* Timers of the same delay fire in the order they were set, so the calls  *)
(* whose timer has not fired form a queue.  Each call is numbered and      *)
(* carries who made it and when.                                           *)
(***************************************************************************)
SYNC_DELAY == 1000

FIVE_MINUTES == 5 * 60 * 1000

\* syncNotes up to its await: the timer is set
startSync(s, by, t) ==
  [started |-> s.started + 1,
   pending |-> Append(s.pending,
                      [n |-> s.started + 1, by |-> by, startedAt |-> t])]

\* the state kept first: a later call does not replace an earlier last sync
syncNotesLastSync_FirstWins(prev, t) == IF prev = Null THEN Some(t) ELSE prev

\* setLastSync(now)
syncNotesLastSync(prev, t) == Some(t)

\* syncNotes without the write to storage
syncNotesStorage_Skip(ls, t) == ls

\* localStorage.setItem(STORAGE_KEYS.lastSync, now.toISOString())
syncNotesStorage(ls, t) == [ls EXCEPT !.lastSync = Iso(t)]

\* isSyncing and the calls after handleSync has run up to its await
afterHandleSync(online, flag, s, t) ==
  IF ~online THEN [isSyncing |-> flag, syncs |-> s]
  ELSE [isSyncing |-> TRUE, syncs |-> startSync(s, "handleSync", t)]

\* the condition under which the auto-sync effect calls handleSync; the
\* difference with an invalid date is NaN, which is not greater
AutoSyncDue(online, ls, t) ==
  /\ online
  /\ ls # Null
  /\ ls[1] # InvalidDate
  /\ t - ls[1] > FIVE_MINUTES

\* isSyncing and the calls after the auto-sync effect has run, which it does
\* whenever isOnline or lastSync has changed
afterAutoSync(online, ls, flag, s, t) ==
  IF AutoSyncDue(online, ls, t) THEN afterHandleSync(online, flag, s, t)
  ELSE [isSyncing |-> flag, syncs |-> s]

\* the effect starts no call beyond the bound
AutoSyncBounded(online, ls, s, t) ==
  AutoSyncDue(online, ls, t) => s.started < MaxSyncs

\* a caller of the hook calls syncNotes
SyncNotes ==
  /\ ~isLoading
  /\ syncs.started < MaxSyncs
  /\ syncs' = startSync(syncs, "caller", now)
  /\ op' = [name |-> "syncNotes", arg |-> syncs.started + 1]
  /\ UNCHANGED <<notes, folders, isLoading, lastSync, localStorage, now,
                 activeNote, activeFolderId, isOnline, isSyncing>>

\* handleSync is called: by the Sync button, or by any other caller
HandleSync ==
  /\ ~isLoading
  /\ isOnline => syncs.started < MaxSyncs
  /\ LET after == afterHandleSync(isOnline, isSyncing, syncs, now)
     IN /\ isSyncing' = after.isSyncing
        /\ syncs' = after.syncs
  /\ op' = [name |-> "handleSync", arg |-> isOnline]
  /\ UNCHANGED <<notes, folders, isLoading, lastSync, localStorage, now,
                 activeNote, activeFolderId, isOnline>>

\* the Sync button is pressed: it is disabled while offline or syncing
ClickSync ==
  /\ isOnline
  /\ ~isSyncing
  /\ HandleSync

\* the window's offline event, and the auto-sync effect of the next render
GoOffline ==
  /\ ~isLoading
  /\ isOnline
  /\ isOnline' = FALSE
  /\ LET after == afterAutoSync(FALSE, lastSync, isSyncing, syncs, now)
     IN /\ isSyncing' = after.isSyncing
        /\ syncs' = after.syncs
  /\ op' = [name |-> "offline"]
  /\ UNCHANGED <<notes, folders, isLoading, lastSync, localStorage, now,
                 activeNote, activeFolderId>>

\* the window's online event, and the auto-sync effect of the next render
GoOnline ==
  /\ ~isLoading
  /\ ~isOnline
  /\ AutoSyncBounded(TRUE, lastSync, syncs, now)
  /\ isOnline' = TRUE
  /\ LET after == afterAutoSync(TRUE, lastSync, isSyncing, syncs, now)
     IN /\ isSyncing' = after.isSyncing
        /\ syncs' = after.syncs
  /\ op' = [name |-> "online"]
  /\ UNCHANGED <<notes, folders, isLoading, lastSync, localStorage, now,
                 activeNote, activeFolderId>>

\* more than five minutes pass, once, while no timer is set
Elapse ==
  /\ ~isLoading
  /\ now < FIVE_MINUTES
  /\ syncs.pending = <<>>
  /\ now' = now + FIVE_MINUTES + 1
  /\ op' = [name |-> "elapse"]
  /\ UNCHANGED <<notes, folders, isLoading, lastSync, localStorage,
                 activeNote, activeFolderId, isOnline, isSyncing, syncs>>

\* the oldest timer fires, no sooner than SYNC_DELAY after it was set: the
\* call records the time, resolves to true, and a handleSync awaiting it
\* clears isSyncing; lastSync has changed, so the auto-sync effect runs
SyncCompletes ==
  /\ syncs.pending # <<>>
  /\ LET call == Head(syncs.pending)
         due == call.startedAt + SYNC_DELAY
         t == IF now < due THEN due ELSE now
         ls == syncNotesLastSync(lastSync, t)
         flag == IF call.by = "handleSync" THEN FALSE ELSE isSyncing
         rest == [syncs EXCEPT !.pending = Tail(syncs.pending)]
         after == afterAutoSync(isOnline, ls, flag, rest, t)
     IN /\ AutoSyncBounded(isOnline, ls, rest, t)
        /\ now' = t
        /\ lastSync' = ls
        /\ localStorage' = syncNotesStorage(localStorage, t)
        /\ isSyncing' = after.isSyncing
        /\ syncs' = after.syncs
        /\ op' = [name |-> "syncResolved", arg |-> call.n, by |-> call.by,
                  startedAt |-> call.startedAt, ret |-> TRUE]
  /\ UNCHANGED <<notes, folders, isLoading, activeNote, activeFolderId,
                 isOnline>>

(***************************************************************************)
(* The mount effect: loadData, then the two save effects of the render     *)
(* that follows.  An exception leaves the state set so far and clears      *)
(* isLoading.  The auto-sync effect of that render sees the loaded         *)
(* lastSync.                                                               *)
(***************************************************************************)
LoadData ==
  /\ isLoading
  /\ LET notesThrows == localStorage.notes = Malformed
         foldersThrows == ~notesThrows /\ localStorage.folders = Malformed
         ns == IF notesThrows THEN notes
               ELSE IF localStorage.notes = Absent THEN <<welcomeNote(now)>>
               ELSE parsedNotes(localStorage.notes)
         fs == IF notesThrows \/ foldersThrows \/ localStorage.folders = Absent
               THEN folders
               ELSE parsedFolders(localStorage.folders)
         ls == IF notesThrows \/ foldersThrows \/ localStorage.lastSync = Absent
               THEN lastSync
               ELSE Some(localStorage.lastSync.val)
     IN /\ notes' = ns
        /\ folders' = fs
        /\ lastSync' = ls
        /\ isLoading' = FALSE
        /\ localStorage' =
             SaveFoldersEffect(SaveNotesEffect(localStorage, ns, FALSE), fs, FALSE)
        /\ AutoSyncBounded(isOnline, ls, syncs, now)
        /\ LET after == afterAutoSync(isOnline, ls, isSyncing, syncs, now)
           IN /\ isSyncing' = after.isSyncing
              /\ syncs' = after.syncs
        /\ op' = [name |-> "loadData"]
  /\ UNCHANGED <<now, activeNote, activeFolderId, isOnline>>

(***************************************************************************)
(* The operations of the hook.  The page renders nothing but the loading   *)
(* screen while isLoading, so no handler runs before loadData.             *)
(***************************************************************************)
SaveNote(noteData) ==
  /\ ~isLoading
  /\ IsCreate(noteData) => Len(notes) < MaxNotes
  /\ notes' = SaveNoteNotes(notes, noteData, now)
  /\ localStorage' = SaveNotesEffect(localStorage, notes', isLoading)
  /\ op' = [name |-> "saveNote", arg |-> noteData,
            ret |-> SaveNoteResult(noteData, now)]
  /\ UNCHANGED <<folders, isLoading, lastSync, now, activeNote, activeFolderId,
                 isOnline, isSyncing, syncs>>

\* deleteNote by position: prev.splice(prev.findIndex(...), 1), which takes
\* the last note out when no note has the identifier (findIndex gives -1)
deleteNote_Splice(prev, noteId) ==
  IF prev = <<>> THEN prev
  ELSE LET at == {i \in 1..Len(prev) : prev[i].id = noteId}
           k == IF at = {} THEN Len(prev)
                ELSE CHOOSE i \in at : \A j \in at : i <= j
       IN SubSeq(prev, 1, k - 1) \o SubSeq(prev, k + 1, Len(prev))

deleteNote(prev, noteId) == SelectSeq(prev, LAMBDA note : note.id # noteId)

DeleteNote(noteId) ==
  /\ ~isLoading
  /\ notes' = deleteNote(notes, noteId)
  /\ localStorage' = SaveNotesEffect(localStorage, notes', isLoading)
  /\ op' = [name |-> "deleteNote", arg |-> noteId]
  /\ UNCHANGED <<folders, isLoading, lastSync, now, activeNote, activeFolderId,
                 isOnline, isSyncing, syncs>>

newFolder(name, color, icon, t) ==
  [id |-> ToString(t), name |-> name, color |-> color, icon |-> icon,
   createdAt |-> t]

CreateFolder(name, color, icon) ==
  /\ ~isLoading
  /\ Len(folders) < MaxFolders
  /\ folders' = Append(folders, newFolder(name, color, icon, now))
  /\ localStorage' = SaveFoldersEffect(localStorage, folders', isLoading)
  /\ op' = [name |-> "createFolder", arg |-> name,
            ret |-> newFolder(name, color, icon, now)]
  /\ UNCHANGED <<notes, isLoading, lastSync, now, activeNote, activeFolderId,
                 isOnline, isSyncing, syncs>>

\* the identifiers of the folders seeded on a first run
DefaultIds == {"all", "quick-notes", "meetings", "ideas", "tasks"}

\* IsDefaultFolder protecting only the first default folder
IsDefaultFolder_OnlyAll(folderId) == folderId = "all"

\* IsDefaultFolder protecting no folder
IsDefaultFolder_Never(folderId) == FALSE

\* DEFAULT_FOLDERS.some(f => f.id === folderId)
IsDefaultFolder(folderId) ==
  \E i \in 1..Len(DEFAULT_FOLDERS(now)) : DEFAULT_FOLDERS(now)[i].id = folderId

\* deleteFolderNotes without the reassignment
deleteFolderNotes_Keep(prev, folderId) == prev

\* the collection after deleteFolder's setNotes
deleteFolderNotes(prev, folderId) ==
  [i \in 1..Len(prev) |->
     IF Has(prev[i], "folder") /\ prev[i].folder = folderId
     THEN Spread(prev[i], [folder |-> "quick-notes"])
     ELSE prev[i]]

\* the collection after deleteFolder's setFolders
deleteFolderFolders(prev, folderId) ==
  SelectSeq(prev, LAMBDA folder : folder.id # folderId)

DeleteFolder(folderId) ==
  /\ ~isLoading
  /\ IF IsDefaultFolder(folderId)
     THEN UNCHANGED <<notes, folders, localStorage>>
     ELSE /\ notes' = deleteFolderNotes(notes, folderId)
          /\ folders' = deleteFolderFolders(folders, folderId)
          /\ localStorage' =
               SaveFoldersEffect(SaveNotesEffect(localStorage, notes', isLoading),
                                 folders', isLoading)
  /\ op' = [name |-> "deleteFolder", arg |-> folderId]
  /\ UNCHANGED <<isLoading, lastSync, now, activeNote, activeFolderId,
                 isOnline, isSyncing, syncs>>

\* getNotesInFolder without the case of the reserved identifier
getNotesInFolder_NoAll(ns, folderId) ==
  SelectSeq(ns, LAMBDA note : Has(note, "folder") /\ note.folder = folderId)

getNotesInFolder(ns, folderId) ==
  IF folderId = "all" THEN ns
  ELSE SelectSeq(ns, LAMBDA note : Has(note, "folder") /\ note.folder = folderId)

FolderIds(fs) == {fs[i].id : i \in 1..Len(fs)}

\* String.prototype.trim
Trim(s) ==
  LET inked == {i \in 1..Len(s) : ~IsWhitespace(s[i])}
  IN IF inked = {} THEN <<>>
     ELSE SubSeq(s, CHOOSE i \in inked : \A j \in inked : i <= j,
                    CHOOSE i \in inked : \A j \in inked : j <= i)

\* how a call ends: with a value returned, or with a TypeError thrown
Returned(v) == [threw |-> FALSE, value |-> v]
Threw == [threw |-> TRUE]

\* the filter callback of searchNotes on one note: "yes", "no", or
\* "throws" when it reaches a method call on a field that is undefined
\* (|| stops at the first truthy operand; note.summary && ... skips a
\* summary that is undefined or empty)
searchMatch(note, searchTerm) ==
  IF ~Has(note, "title") THEN "throws"
  ELSE IF Includes(ToLowerCase(note.title), searchTerm) THEN "yes"
  ELSE IF ~Has(note, "content") THEN "throws"
  ELSE IF Includes(ToLowerCase(note.content), searchTerm) THEN "yes"
  ELSE IF ~Has(note, "tags") THEN "throws"
  ELSE IF \E k \in 1..Len(note.tags) :
            Includes(ToLowerCase(note.tags[k]), searchTerm) THEN "yes"
  ELSE IF Has(note, "summary") /\ note.summary # <<>>
          /\ Includes(ToLowerCase(note.summary), searchTerm) THEN "yes"
  ELSE "no"

\* searchNotes testing the query as typed, untrimmed
searchNotes_NoTrim(ns, query) ==
  IF query = <<>> THEN Returned(ns)
  ELSE LET searchTerm == ToLowerCase(query) IN
       IF \E i \in 1..Len(ns) : searchMatch(ns[i], searchTerm) = "throws"
       THEN Threw
       ELSE Returned(SelectSeq(ns, LAMBDA note : searchMatch(note, searchTerm) = "yes"))

searchNotes(ns, query) ==
  IF Trim(query) = <<>> THEN Returned(ns)
  ELSE LET searchTerm == ToLowerCase(query) IN
       IF \E i \in 1..Len(ns) : searchMatch(ns[i], searchTerm) = "throws"
       THEN Threw
       ELSE Returned(SelectSeq(ns, LAMBDA note : searchMatch(note, searchTerm) = "yes"))

\* the two reads of the hook, each on the collection of the current render
GetNotesInFolder(folderId) ==
  /\ ~isLoading
  /\ op' = [name |-> "getNotesInFolder", arg |-> folderId,
            ret |-> getNotesInFolder(notes, folderId)]
  /\ UNCHANGED <<notes, folders, isLoading, lastSync, localStorage, now,
                 activeNote, activeFolderId,
                 isOnline, isSyncing, syncs>>

SearchNotes(query) ==
  /\ ~isLoading
  /\ op' = [name |-> "searchNotes", arg |-> query,
            ret |-> searchNotes(notes, query)]
  /\ UNCHANGED <<notes, folders, isLoading, lastSync, localStorage, now,
                 activeNote, activeFolderId,
                 isOnline, isSyncing, syncs>>

(***************************************************************************)
(* The handlers of the page.                                               *)
(***************************************************************************)
\* the note handleCreateNote builds
createdNote(folderId, t) ==
  [id |-> ToString(t), title |-> <<>>, content |-> <<>>, tags |-> <<>>,
   folder |-> IF folderId = "all" THEN "quick-notes" ELSE folderId,
   createdAt |-> t, updatedAt |-> t, wordCount |-> 0]

HandleCreateNote ==
  /\ ~isLoading
  /\ LET noteData == createdNote(activeFolderId, now) IN
       /\ IsCreate(noteData) => Len(notes) < MaxNotes
       /\ notes' = SaveNoteNotes(notes, noteData, now)
       /\ activeNote' = Some(SaveNoteResult(noteData, now))
       /\ op' = [name |-> "handleCreateNote", arg |-> noteData,
                 ret |-> SaveNoteResult(noteData, now)]
  /\ localStorage' = SaveNotesEffect(localStorage, notes', isLoading)
  /\ UNCHANGED <<folders, isLoading, lastSync, now, activeFolderId,
                 isOnline, isSyncing, syncs>>

\* categorized without the auto-categorization
categorized_Never(noteData) == noteData

\* noteData after the auto-categorization of handleSaveNote
categorized(noteData) ==
  IF OrElse(noteData, "content", <<>>) # <<>>
     /\ OrElseId(noteData, "folder", "") = ""
  THEN Spread(noteData, [folder |-> categorizeNote(noteData.content)])
  ELSE noteData

HandleSaveNote(noteData) ==
  /\ ~isLoading
  /\ IsCreate(categorized(noteData)) => Len(notes) < MaxNotes
  /\ notes' = SaveNoteNotes(notes, categorized(noteData), now)
  /\ activeNote' = Some(SaveNoteResult(categorized(noteData), now))
  /\ localStorage' = SaveNotesEffect(localStorage, notes', isLoading)
  /\ op' = [name |-> "handleSaveNote", arg |-> noteData,
            ret |-> SaveNoteResult(categorized(noteData), now)]
  /\ UNCHANGED <<folders, isLoading, lastSync, now, activeFolderId,
                 isOnline, isSyncing, syncs>>

\* the object the editor's handleSave passes to onSave; e is the editor's
\* state (title, content, tags, selectedFolder, summary, actionItems)
handleSaveData(note, e) ==
  Spread(Spread(Pick(note, {"id"}),
                [title |-> IF e.title # <<>> THEN e.title ELSE UntitledNote,
                 content |-> e.content,
                 tags |-> e.tags,
                 folder |-> e.selectedFolder,
                 wordCount |-> WordCount(e.content)]),
         Spread(IF e.summary # <<>> THEN [summary |-> e.summary] ELSE <<>>,
                IF Len(e.actionItems) > 0
                THEN [actionItems |-> e.actionItems] ELSE <<>>))

\* the state the editor starts with for a note
editorState(note) ==
  [content |-> OrElse(note, "content", <<>>),
   title |-> OrElse(note, "title", <<>>),
   tags |-> OrElse(note, "tags", <<>>),
   selectedFolder |-> OrElseId(note, "folder", "quick-notes"),
   summary |-> OrElse(note, "summary", <<>>),
   actionItems |-> OrElse(note, "actionItems", <<>>)]

\* the editor's state when Save is pressed: as it started, or with
\* everything cleared, or with everything typed over
EditorInputs(note) ==
  { editorState(note),
    [title |-> <<>>, content |-> <<>>, tags |-> <<>>, summary |-> <<>>,
     actionItems |-> <<>>, selectedFolder |-> editorState(note).selectedFolder],
    [title |-> TitleT, content |-> BodyTwo, tags |-> <<TagX>>,
     summary |-> SummaryS, actionItems |-> <<"do">>,
     selectedFolder |-> editorState(note).selectedFolder] }

\* SelectableFolders with the reserved folder among them
SelectableFolders_WithAll == FolderIds(folders)

\* the folders the editor's Select offers
SelectableFolders == FolderIds(folders) \ {"all"}

\* the editor is rendered only while a note is active
EditorHandleSave(e) ==
  /\ activeNote # Null
  /\ HandleSaveNote(handleSaveData(activeNote[1], e))

HandleSelectNote(note) ==
  /\ ~isLoading
  /\ activeNote' = Some(note)
  /\ op' = [name |-> "handleSelectNote", arg |-> note]
  /\ UNCHANGED <<notes, folders, isLoading, lastSync, localStorage, now,
                 activeFolderId,
                 isOnline, isSyncing, syncs>>

HandleSelectFolder(folderId) ==
  /\ ~isLoading
  /\ activeFolderId' = folderId
  /\ activeNote' = Null
  /\ op' = [name |-> "handleSelectFolder", arg |-> folderId]
  /\ UNCHANGED <<notes, folders, isLoading, lastSync, localStorage, now,
                 isOnline, isSyncing, syncs>>

\* remainingNotes is computed from the collection of the current render
HandleDeleteNote(noteId) ==
  /\ ~isLoading
  /\ notes' = deleteNote(notes, noteId)
  /\ localStorage' = SaveNotesEffect(localStorage, notes', isLoading)
  /\ LET remainingNotes == deleteNote(getNotesInFolder(notes, activeFolderId), noteId)
     IN activeNote' =
          IF activeNote # Null /\ activeNote[1].id = noteId
          THEN IF Len(remainingNotes) > 0 THEN Some(remainingNotes[1]) ELSE Null
          ELSE activeNote
  /\ op' = [name |-> "handleDeleteNote", arg |-> noteId]
  /\ UNCHANGED <<folders, isLoading, lastSync, now, activeFolderId,
                 isOnline, isSyncing, syncs>>

\* the notes the sidebar lists
DisplayedNotes == getNotesInFolder(notes, activeFolderId)

(***************************************************************************)
(* Spec: the note operations of the hook, called with arbitrary arguments. *)
(***************************************************************************)
Next ==
  \/ Tick
  \/ LoadData
  \/ \E id \in NoteIds(notes) \cup {GhostId} : DeleteNote(id)
  \/ \E d \in NoteInputs : SaveNote(d)
  \/ \E d \in UpdateInputs, id \in NoteIds(notes) \cup {GhostId} :
       SaveNote(Spread(d, [id |-> id]))

Spec == Init /\ [][Next]_vars

(***************************************************************************)
(* SpecFolders: the folder operations of the hook, and notes saved into    *)
(* the folders created and into a default one.                             *)
(***************************************************************************)
NextFolders ==
  \/ Tick
  \/ LoadData
  \/ CreateFolder("Work", "blue", "Folder")
  \/ \E id \in FolderIds(folders) \cup {GhostId} : DeleteFolder(id)
  \/ \E f \in {id \in FolderIds(folders) : ~IsDefaultFolder(id)} \cup {"ideas"} :
       SaveNote([content |-> BodyOne, folder |-> f])

SpecFolders == Init /\ [][NextFolders]_vars

(***************************************************************************)
(* SpecPage: the page, its handlers the only callers of the hook.          *)
(***************************************************************************)
NextPage ==
  \/ Tick
  \/ LoadData
  \/ HandleCreateNote
  \/ \E note \in {activeNote[i] : i \in 1..Len(activeNote)} :
       \E e \in EditorInputs(note) :
          \/ EditorHandleSave(e)
          \/ \E f \in SelectableFolders :
               EditorHandleSave(Spread(e, [selectedFolder |-> f]))
  \/ \E i \in 1..Len(DisplayedNotes) : HandleSelectNote(DisplayedNotes[i])
  \/ \E id \in FolderIds(folders) : HandleSelectFolder(id)
  \/ \E id \in NoteIds(DisplayedNotes) : HandleDeleteNote(id)

SpecPage == Init /\ [][NextPage]_vars

(***************************************************************************)
(* SpecResave: notes saved into a created folder (one at a time), with a   *)
(* caller that keeps the note a save returned (as the page keeps it in     *)
(* activeNote) and saves that copy again later, whatever happened to its   *)
(* folder in between.                                                      *)
(***************************************************************************)
\* saveNote called with the note the caller still holds
ResaveCopy ==
  /\ activeNote # Null
  /\ SaveNote(activeNote[1])

NextResave ==
  \/ Tick
  \/ LoadData
  \/ FolderIds(folders) \subseteq DefaultIds /\ CreateFolder("Work", "blue", "Folder")
  \/ \E id \in {id \in FolderIds(folders) : ~IsDefaultFolder(id)} :
       DeleteFolder(id)
  \/ \E f \in {id \in FolderIds(folders) : ~IsDefaultFolder(id)} :
       HandleSaveNote([content |-> BodyOne, folder |-> f])
  \/ ResaveCopy
  \/ \E id \in NoteIds(notes) : DeleteNote(id)

SpecResave == Init /\ [][NextResave]_vars

(***************************************************************************)
(* SpecQuery: the reads of the hook, getNotesInFolder and searchNotes, on  *)
(* the collections that saveNote builds.  The reads do not read the clock, *)
(* which stands still here.                                                *)
(***************************************************************************)
\* what is saved: a note with every text in mixed case, filed under
\* "meetings"; a note of defaults only
QueryNotes ==
  { [title |-> <<"A", "b">>, content |-> <<"c", "D">>,
     tags |-> << <<"E", "f">>, <<"g", "h">> >>, folder |-> "meetings",
     summary |-> <<"I", "j">>],
    <<>> }

\* what is searched for: nothing; blanks; a text found in a title, in a
\* body, in a tag, in a summary, each typed in the other case; a text with
\* a blank in front; a text found nowhere
Queries ==
  { <<>>, <<" ">>, <<"\n", " ", "\t">>,
    <<"a", "B">>, <<"C", "d">>, <<"F">>, <<"i", "J">>, <<" ", "h">>, <<"z", "q">> }

NextQuery ==
  \/ LoadData
  \/ \E d \in QueryNotes : SaveNote(d)
  \/ \E d \in UpdateInputs, id \in NoteIds(notes) : SaveNote(Spread(d, [id |-> id]))
  \/ \E id \in FolderIds(folders) \cup {GhostId} : GetNotesInFolder(id)
  \/ \E q \in Queries : SearchNotes(q)

SpecQuery == Init /\ [][NextQuery]_vars

(***************************************************************************)
(* SpecCategorize: categorizeNote applied to bodies of no word, of one     *)
(* word and of two words with a space between.                             *)
(***************************************************************************)
CategorizeNote(content) ==
  /\ ~isLoading
  /\ op' = [name |-> "categorizeNote", arg |-> content,
            ret |-> categorizeNote(content)]
  /\ UNCHANGED <<notes, folders, isLoading, lastSync, localStorage, now,
                 activeNote, activeFolderId,
                 isOnline, isSyncing, syncs>>

\* the words of the bodies: the keywords of the three rules in either
\* case, the two halves of "action item", a word with a keyword inside it
\* and a word with none
Words ==
  { <<"M", "e", "e", "t", "i", "n", "g">>,
    <<"A", "G", "E", "N", "D", "A">>,
    <<"d", "i", "s", "c", "u", "s", "s", "e", "d">>,
    <<"I", "d", "e", "a">>,
    <<"b", "r", "a", "i", "n", "s", "t", "o", "r", "m">>,
    <<"C", "o", "n", "c", "e", "p", "t">>,
    <<"t", "o", "d", "o">>,
    <<"T", "a", "s", "k">>,
    <<"m", "u", "l", "t", "i", "t", "a", "s", "k", "i", "n", "g">>,
    <<"a", "c", "t", "i", "o", "n">>,
    <<"i", "t", "e", "m">>,
    <<"n", "o", "t", "e">> }

Bodies ==
  {<<>>} \cup Words \cup {w1 \o <<" ">> \o w2 : w1 \in Words, w2 \in Words}

NextCategorize ==
  \/ Tick
  \/ LoadData
  \/ \E content \in Bodies : CategorizeNote(content)

SpecCategorize == Init /\ [][NextCategorize]_vars

(***************************************************************************)
(* SpecAutoFile: handleSaveNote called with notes that name no folder, a   *)
(* folder that is empty, or a folder of their own.  The clock stands still *)
(* here: the folder given does not depend on it.                           *)
(***************************************************************************)
MeetingBody ==
  <<"L", "e", "t", "'", "s", " ", "d", "i", "s", "c", "u", "s", "s", " ", "t", "h", "e", " ", "m", "e", "e", "t", "i", "n", "g", " ", "a", "g", "e", "n", "d", "a">>

\* the bodies saved: of the meetings rule, of the ideas rule, of no rule,
\* empty
AutoBodies ==
  { MeetingBody, <<"A", "n", " ", "I", "d", "e", "a">>, BodyOne, <<>> }

\* what handleSaveNote is given to create a note: a body alone; a body and
\* an empty folder; a body and a folder
AutoInputs ==
  {[content |-> b] : b \in AutoBodies}
  \cup {[content |-> MeetingBody, folder |-> ""],
        [content |-> MeetingBody, folder |-> "ideas"]}

\* what it is given, besides the identifier, to update one
AutoUpdates == { [content |-> <<"t", "o", "d", "o">>] }

NextAutoFile ==
  \/ LoadData
  \/ \E d \in AutoInputs : HandleSaveNote(d)
  \/ \E d \in AutoUpdates, id \in NoteIds(notes) \cup {GhostId} :
       HandleSaveNote(Spread(d, [id |-> id]))

SpecAutoFile == Init /\ [][NextAutoFile]_vars

(***************************************************************************)
(* SpecLoad: the mount effect on what an earlier session, at time 1, or    *)
(* anything else that writes to the three keys, has left in localStorage.  *)
(***************************************************************************)
\* the notes entry: none; one that does not parse; "[]"; one note
StoredNotes ==
  { Absent, Malformed, Json(<<>>),
    Stringify(<<newNote([content |-> BodyOne], 1)>>) }

\* the folders entry: none; one that does not parse; the default folders
\* and one created by the user
StoredFolders ==
  { Absent, Malformed,
    Stringify(Append(DEFAULT_FOLDERS(1), newFolder("Work", "blue", "Folder", 1))) }

StoredLastSync == { Absent, Iso(1) }

InitLoad ==
  /\ now = 2
  /\ notes = <<>>
  /\ folders = DEFAULT_FOLDERS(now)
  /\ isLoading = TRUE
  /\ lastSync = Null
  /\ localStorage \in [notes : StoredNotes, folders : StoredFolders,
                        lastSync : StoredLastSync]
  /\ activeNote = Null
  /\ activeFolderId = "all"
  /\ isOnline = TRUE
  /\ isSyncing = FALSE
  /\ syncs = [started |-> 0, pending |-> <<>>]
  /\ op = [name |-> "init"]

NextLoad ==
  \/ Tick
  \/ LoadData
  \/ SaveNote(<<>>)

SpecLoad == InitLoad /\ [][NextLoad]_vars

(***************************************************************************)
(* SpecPageFolders: the handlers of the page that give a note its folder   *)
(* (handleCreateNote under each active folder; the editor's save with each *)
(* folder its Select offers; handleSaveNote left to categorizeNote), and   *)
(* deleteFolder called beside them with the reserved identifier and with   *)
(* no folder's.  The clock stands still here.                              *)
(***************************************************************************)
NextPageFolders ==
  \/ LoadData
  \/ HandleCreateNote
  \/ \E note \in {activeNote[i] : i \in 1..Len(activeNote)} :
       \/ \E f \in SelectableFolders :
            EditorHandleSave(Spread(editorState(note), [selectedFolder |-> f]))
       \/ HandleSaveNote([id |-> note.id, content |-> MeetingBody])
  \/ \E i \in 1..Len(DisplayedNotes) : HandleSelectNote(DisplayedNotes[i])
  \/ \E id \in FolderIds(folders) : HandleSelectFolder(id)
  \/ \E id \in {"all", GhostId} : DeleteFolder(id)

SpecPageFolders == Init /\ [][NextPageFolders]_vars

(***************************************************************************)
(* The hook under a caller that synchronises, with calls that overlap,     *)
(* while notes are saved.  The timer of a call fires if it is left to:     *)
(* the second specification says so.                                       *)
(***************************************************************************)
NextSync ==
  \/ Tick
  \/ LoadData
  \/ SaveNote(<<>>)
  \/ SyncNotes
  \/ SyncCompletes

SpecSync == Init /\ [][NextSync]_vars

SpecSyncFair == SpecSync /\ WF_vars(SyncCompletes)

(***************************************************************************)
(* The page's synchronisation: the Sync button, handleSync called while    *)
(* offline, the connection going and coming back, time passing, and the    *)
(* timers firing.                                                          *)
(***************************************************************************)
NextSyncPage ==
  \/ Tick
  \/ LoadData
  \/ ClickSync
  \/ ~isOnline /\ HandleSync
  \/ GoOffline
  \/ GoOnline
  \/ Elapse
  \/ SyncCompletes

SpecSyncPage == Init /\ [][NextSyncPage]_vars

(***************************************************************************)
(* Properties.                                                             *)
(***************************************************************************)
\* the number of non-empty whitespace-delimited tokens of a text: the
\* positions where a token starts
TokenCount(s) ==
  Cardinality({i \in 1..Len(s) :
                 ~IsWhitespace(s[i]) /\ (i = 1 \/ IsWhitespace(s[i - 1]))})

\* the body of a note or of a saveNote argument, empty when absent
BodyOf(o) == IF Has(o, "content") THEN o.content ELSE <<>>

\* C1: after handleCreateNote the collection has grown by exactly one entry
\* and the note made active is an entry of the collection.
C1_CreateNoteJoinsCollection ==
  [][op'.name = "handleCreateNote" =>
       /\ Len(notes') = Len(notes) + 1
       /\ activeNote' # Null
       /\ \E i \in 1..Len(notes') : notes'[i] = activeNote'[1]]_vars

\* C2: saveNote with the identifier of a stored note stores, at the same
\* position, the stored note with the given fields laid over it and with
\* updatedAt and wordCount recomputed, leaves the other entries alone and
\* returns the stored entry.
C2_UpdateMergesOverStored ==
  [][(op'.name = "saveNote" /\ ~IsCreate(op'.arg)) =>
       /\ Len(notes') = Len(notes)
       /\ \A i \in 1..Len(notes) :
            IF notes[i].id = op'.arg.id
            THEN LET given == Spread(notes[i], op'.arg)
                     merged == Spread(given, [updatedAt |-> now',
                                              wordCount |-> TokenCount(BodyOf(given))])
                 IN notes'[i] = merged /\ op'.ret = merged
            ELSE notes'[i] = notes[i]]_vars

\* C3: once loading has finished, after every saveNote, deleteNote and
\* deleteFolder the notes entry of localStorage reads back as the note
\* collection and the folders entry as the folder collection.
C3_StorageMirrorsMemory ==
  (~isLoading /\ op.name \in {"saveNote", "deleteNote", "deleteFolder"}) =>
     /\ localStorage.notes.kind = "json"
     /\ parsedNotes(localStorage.notes) = notes
     /\ localStorage.folders.kind = "json"
     /\ parsedFolders(localStorage.folders) = folders

Defined(o, k) == Has(o, k) /\ o[k] # InvalidDate

\* C4: every note has createdAt and updatedAt with updatedAt >= createdAt,
\* and saving a note again never decreases its updatedAt.
C4_UpdatedNotBeforeCreated ==
  /\ [](\A i \in 1..Len(notes) :
          /\ Defined(notes[i], "createdAt")
          /\ Defined(notes[i], "updatedAt")
          /\ notes[i].updatedAt >= notes[i].createdAt)
  /\ [][\A i \in 1..Len(notes), j \in 1..Len(notes') :
          (op'.name = "saveNote" /\ notes[i].id = notes'[j].id) =>
             notes'[j].updatedAt >= notes[i].updatedAt]_vars

\* C5: a note stored under an identifier keeps its createdAt through every
\* operation.
C5_CreatedAtImmutable ==
  [][\A i \in 1..Len(notes), j \in 1..Len(notes') :
       notes[i].id = notes'[j].id =>
          /\ Has(notes'[j], "createdAt")
          /\ notes'[j].createdAt = notes[i].createdAt]_vars

\* C6: no two notes of the collection share an identifier.
C6_UniqueIds ==
  \A i, j \in 1..Len(notes) : notes[i].id = notes[j].id => i = j

\* C7: every note's wordCount is the number of non-empty
\* whitespace-delimited tokens of its body.
C7_WordCountMatchesBody ==
  \A i \in 1..Len(notes) :
     Has(notes[i], "wordCount") /\ notes[i].wordCount = TokenCount(BodyOf(notes[i]))

\* C8: the note returned by saveNote without an identifier has a wordCount
\* equal to the number of non-empty whitespace-delimited tokens of the body
\* supplied (0 for an absent, empty or blank body), whatever wordCount the
\* caller supplied.
C8_CreateCountsTokens ==
  (op.name = "saveNote" /\ IsCreate(op.arg)) =>
     op.ret.wordCount = TokenCount(BodyOf(op.arg))

C8_Witness ==
  /\ op.name = "saveNote" /\ IsCreate(op.arg)
  /\ Has(op.arg, "wordCount") /\ op.arg.wordCount # op.ret.wordCount
  /\ op.ret.wordCount = 2
  /\ Len(op.arg.content) > 2
  /\ notes[1] = op.ret

\* C9: saveNote without an identifier puts exactly one new note at the head
\* of the collection, keeps the existing entries and their order, and
\* returns that note with the defaults filled: title "Untitled" for an
\* empty or absent title, no tags for absent tags, folder "quick-notes" for
\* an absent folder, and createdAt equal to updatedAt.
C9_CreatePrependsWithDefaults ==
  [][(op'.name = "saveNote" /\ IsCreate(op'.arg)) =>
       LET a == op'.arg
           r == op'.ret
       IN /\ notes' = <<r>> \o notes
          /\ (~Has(a, "title") \/ a.title = <<>>) => r.title = Untitled
          /\ ~Has(a, "tags") => r.tags = <<>>
          /\ ~Has(a, "folder") => r.folder = "quick-notes"
          /\ r.createdAt = r.updatedAt]_vars

C9_Witness ==
  /\ op.name = "saveNote" /\ IsCreate(op.arg)
  /\ ~Has(op.arg, "title") /\ ~Has(op.arg, "tags") /\ ~Has(op.arg, "folder")
  /\ Len(notes) >= 3
  /\ notes[1] = op.ret
  /\ notes[2] # notes[3]

\* C10: saveNote with an identifier that no note of the collection carries
\* returns a note and leaves the collection as it was.
C10_UnknownIdLeavesCollection ==
  [][(op'.name = "saveNote" /\ ~IsCreate(op'.arg)
        /\ op'.arg.id \notin NoteIds(notes)) =>
       /\ notes' = notes
       /\ op'.ret.id = op'.arg.id]_vars

C10_Witness ==
  /\ op.name = "saveNote" /\ ~IsCreate(op.arg)
  /\ op.arg.id \notin NoteIds(notes)
  /\ Len(notes) >= 1
  /\ op.ret.id = op.arg.id

\* the positions of the notes filed under a folder
FiledUnder(ns, f) == {i \in 1..Len(ns) : Has(ns[i], "folder") /\ ns[i].folder = f}

\* C11: deleteFolder with the identifier of a default folder leaves the
\* folder collection and every note (its folder included) as they were.
C11_DefaultFolderDeleteIsNoOp ==
  [][(op'.name = "deleteFolder" /\ op'.arg \in DefaultIds) =>
       /\ folders' = folders
       /\ Len(notes') = Len(notes)
       /\ \A i \in 1..Len(notes) : notes'[i] = notes[i]]_vars

C11_Witness ==
  /\ op.name = "deleteFolder" /\ op.arg = "ideas"
  /\ FiledUnder(notes, "ideas") # {}
  /\ "ideas" \in FolderIds(folders)
  /\ Len(folders) > Cardinality(DefaultIds)

\* C12: deleteFolder with the identifier f of a folder that is not a
\* default one turns the folder of exactly the notes filed under f into
\* "quick-notes", leaves no note filed under f, leaves every other note and
\* every other field as it was, keeps the order of the notes, removes f
\* from the folder collection and keeps every other folder, in order.
C12_FolderDeleteReassignsNotes ==
  [][(op'.name = "deleteFolder" /\ op'.arg \notin DefaultIds) =>
       LET f == op'.arg
           kept == {i \in 1..Len(folders) : folders[i].id # f}
       IN /\ Len(notes') = Len(notes)
          /\ \A i \in 1..Len(notes) :
               IF i \in FiledUnder(notes, f)
               THEN /\ notes'[i].folder = "quick-notes"
                    /\ DOMAIN notes'[i] = DOMAIN notes[i]
                    /\ \A k \in DOMAIN notes[i] \ {"folder"} :
                         notes'[i][k] = notes[i][k]
               ELSE notes'[i] = notes[i]
          /\ FiledUnder(notes', f) = {}
          /\ f \notin FolderIds(folders')
          /\ Len(folders') = Cardinality(kept)
          /\ \A i \in kept :
               folders'[Cardinality({j \in kept : j <= i})] = folders[i]]_vars

\* the state after a folder that held two notes (each saved with the body
\* BodyOne into a created folder) was deleted, the welcome note staying as
\* it was
C12_Witness ==
  /\ op.name = "deleteFolder"
  /\ op.arg \notin DefaultIds \cup {GhostId}
  /\ op.arg \notin FolderIds(folders)
  /\ Cardinality({i \in FiledUnder(notes, "quick-notes") :
                    notes[i].content = BodyOne}) >= 2
  /\ \E i \in 1..Len(notes) : notes[i].content = WelcomeContent

\* C13: from the first run on, through every createFolder and deleteFolder,
\* the five default folders are in the folder collection.
C13_DefaultFoldersStay ==
  \A id \in DefaultIds : \E i \in 1..Len(folders) : folders[i].id = id

C13_Witness ==
  /\ op.name = "deleteFolder" /\ op.arg = "quick-notes"
  /\ Len(folders) > Cardinality(DefaultIds)
  /\ \E i \in 1..Len(folders) : folders[i].id = "quick-notes"

\* C14: every note is filed under a folder of the folder collection or is
\* listed by getNotesInFolder("quick-notes"), also after a folder was
\* deleted and a note saved again from a copy that still names it.
C14_NoOrphanNotes ==
  \A i \in 1..Len(notes) :
     \/ Has(notes[i], "folder") /\ notes[i].folder \in FolderIds(folders)
     \/ \E k \in 1..Len(getNotesInFolder(notes, "quick-notes")) :
          getNotesInFolder(notes, "quick-notes")[k] = notes[i]

\* the k-th smallest of a set of positions, and the entries of a sequence
\* at a set of positions, in order
Nth(S, k) == CHOOSE i \in S : Cardinality({j \in S : j < i}) = k - 1
At(ns, S) == [k \in 1..Cardinality(S) |-> ns[Nth(S, k)]]

\* C15: getNotesInFolder("all") returns the collection itself; with any
\* other identifier it returns the notes whose folder is that identifier,
\* and no other, in the order they have in the collection.
C15_FolderListing ==
  op.name = "getNotesInFolder" =>
     IF op.arg = "all"
     THEN op.ret = notes
     ELSE op.ret = At(notes, FiledUnder(notes, op.arg))

\* a listing of two notes that have a note of another folder between them
C15_Witness ==
  /\ op.name = "getNotesInFolder" /\ op.arg = "quick-notes"
  /\ Len(notes) = 3 /\ Len(op.ret) = 2
  /\ Has(notes[2], "folder") /\ notes[2].folder = "meetings"
  /\ op.ret = <<notes[1], notes[3]>>

\* the time at which the note with an identifier was created: saveNote
\* makes the identifier from the clock; the welcome note's is "1"
IdTime(id) == CHOOSE t \in 0..MaxClock : ToString(t) = id

IdSeq(ns) == [i \in 1..Len(ns) |-> ns[i].id]

\* the folder identifiers a listing can be asked for
Listable(ns) == {"all"} \cup FolderIds(folders) \cup
                {ns[i].folder : i \in {k \in 1..Len(ns) : Has(ns[k], "folder")}}

\* C16: every listing of getNotesInFolder is most-recent-first; a note
\* created by saveNote heads the listings it appears in, in front of the
\* listing as it was; updates, deletions of other notes and folder
\* deletions keep the notes that stay in the order they had.
C16_MostRecentFirst ==
  /\ [](\A f \in Listable(notes) :
          LET l == getNotesInFolder(notes, f)
          IN \A i, j \in 1..Len(l) : i < j => IdTime(l[i].id) >= IdTime(l[j].id))
  /\ [][/\ (op'.name \in {"saveNote", "handleSaveNote"} /\ IsCreate(op'.arg)) =>
            \A f \in {"all", op'.ret.folder} :
               getNotesInFolder(notes', f) = <<op'.ret>> \o getNotesInFolder(notes, f)
        /\ (op'.name \in {"saveNote", "handleSaveNote"} /\ ~IsCreate(op'.arg)) =>
            IdSeq(notes') = IdSeq(notes)
        /\ op'.name = "deleteFolder" => IdSeq(notes') = IdSeq(notes)
        /\ op'.name = "deleteNote" =>
            /\ \A i, j \in 1..Len(notes') :
                  i < j => \E p, q \in 1..Len(notes) :
                              p < q /\ notes[p] = notes'[i] /\ notes[q] = notes'[j]
            /\ \A p \in 1..Len(notes) :
                  notes[p].id # op'.arg => \E i \in 1..Len(notes') : notes'[i] = notes[p]
       ]_vars

\* two notes created at different times into a folder that was then
\* deleted, listed with the welcome note under "quick-notes"
C16_Witness ==
  /\ op.name = "deleteFolder" /\ op.arg \notin DefaultIds
  /\ LET l == getNotesInFolder(notes, "quick-notes")
     IN /\ Len(l) = 3
        /\ IdTime(l[1].id) > IdTime(l[2].id)
        /\ IdTime(l[2].id) > IdTime(l[3].id)
        /\ l[1].content = BodyOne /\ l[2].content = BodyOne

\* C17: deleteNote takes out the entry carrying the identifier and keeps
\* every other entry, unchanged and in order: the collection shrinks by one
\* when one note carries it and stays as it was when none does.
C17_DeleteNoteRemovesOnlyThat ==
  [][op'.name = "deleteNote" =>
       LET kept == {i \in 1..Len(notes) : notes[i].id # op'.arg}
           hit == {i \in 1..Len(notes) : notes[i].id = op'.arg}
       IN /\ notes' = At(notes, kept)
          /\ op'.arg \notin NoteIds(notes')
          /\ Cardinality(hit) = 1 => Len(notes') = Len(notes) - 1
          /\ hit = {} => notes' = notes /\ Len(notes') = Len(notes)]_vars

\* deleteNote with an identifier of no note, on a collection of several
C17_Witness ==
  /\ op.name = "deleteNote" /\ op.arg = GhostId
  /\ Len(notes) >= 2
  /\ GhostId \notin NoteIds(notes)

IsBlank(q) == \A i \in 1..Len(q) : IsWhitespace(q[i])

\* C18: searchNotes with an empty query or one of whitespace only returns
\* the collection itself.
C18_BlankQueryReturnsAll ==
  (op.name = "searchNotes" /\ IsBlank(op.arg)) =>
     ~op.ret.threw /\ op.ret.value = notes

\* a query of a newline, a space and a tab on three notes, one of which
\* contains no whitespace at all
C18_Witness ==
  /\ op.name = "searchNotes" /\ Len(op.arg) = 3 /\ IsBlank(op.arg)
  /\ Len(notes) = 3 /\ op.ret = Returned(notes)
  /\ \E i \in 1..Len(notes) :
       /\ Has(notes[i], "title") /\ notes[i].title = Untitled
       /\ Has(notes[i], "content") /\ notes[i].content = <<>>

\* the text, lower-cased, contains the query, lower-cased
Mentions(text, q) ==
  LET t == ToLowerCase(text)
      w == ToLowerCase(q)
  IN \E i \in 1..(Len(t) - Len(w) + 1) : SubSeq(t, i, i + Len(w) - 1) = w

\* the positions of the notes a query is found in
FoundIn(ns, q) ==
  {i \in 1..Len(ns) :
     \/ Has(ns[i], "title") /\ Mentions(ns[i].title, q)
     \/ Has(ns[i], "content") /\ Mentions(ns[i].content, q)
     \/ Has(ns[i], "tags") /\ \E k \in 1..Len(ns[i].tags) : Mentions(ns[i].tags[k], q)
     \/ Has(ns[i], "summary") /\ Mentions(ns[i].summary, q)}

\* C19: searchNotes with a query that is not blank returns the notes whose
\* title, body, one of whose tags, or whose summary when present contains
\* the query, case ignored: all of them and no other, in collection order.
C19_SearchFindsExactly ==
  (op.name = "searchNotes" /\ ~IsBlank(op.arg)) =>
     ~op.ret.threw /\ op.ret.value = At(notes, FoundIn(notes, op.arg))

\* the keywords of the three rules
MeetingWords == {<<"m", "e", "e", "t", "i", "n", "g">>, <<"a", "g", "e", "n", "d", "a">>, <<"d", "i", "s", "c", "u", "s", "s", "e", "d">>}
IdeaWords == {<<"i", "d", "e", "a">>, <<"b", "r", "a", "i", "n", "s", "t", "o", "r", "m">>, <<"c", "o", "n", "c", "e", "p", "t">>}
TaskWords == {<<"t", "o", "d", "o">>, <<"t", "a", "s", "k">>, <<"a", "c", "t", "i", "o", "n", " ", "i", "t", "e", "m">>}

MentionsAny(body, ws) == \E w \in ws : Mentions(body, w)

\* C20: categorizeNote gives, for every body, one of meetings, ideas, tasks
\* and quick-notes: meetings when the body contains a meeting keyword;
\* else ideas when it contains an idea keyword; else tasks when it contains
\* a task keyword; else quick-notes.  A body with "task" and "agenda" goes
\* to meetings.
C20_FirstRuleWins ==
  op.name = "categorizeNote" =>
     LET m == MentionsAny(op.arg, MeetingWords)
         i == MentionsAny(op.arg, IdeaWords)
         t == MentionsAny(op.arg, TaskWords)
     IN /\ op.ret \in {"meetings", "ideas", "tasks", "quick-notes"}
        /\ op.ret = "meetings" <=> m
        /\ op.ret = "ideas" <=> ~m /\ i
        /\ op.ret = "tasks" <=> ~m /\ ~i /\ t
        /\ op.ret = "quick-notes" <=> ~m /\ ~i /\ ~t
        /\ op.arg = <<"T", "a", "s", "k", " ", "A", "G", "E", "N", "D", "A">> => op.ret = "meetings"

C20_Witness ==
  /\ op.name = "categorizeNote"
  /\ op.arg = <<"T", "a", "s", "k", " ", "A", "G", "E", "N", "D", "A">>
  /\ op.ret = "meetings"

\* the folder the keyword rules give a body
RuleFolder(body) ==
  IF MentionsAny(body, MeetingWords) THEN "meetings"
  ELSE IF MentionsAny(body, IdeaWords) THEN "ideas"
  ELSE IF MentionsAny(body, TaskWords) THEN "tasks"
  ELSE "quick-notes"

\* C21: handleSaveNote given a note with a body that is not empty and with
\* no folder (none, or an empty one) saves it with the folder
\* categorizeNote gives the body: the note returned carries that folder and,
\* when the note is created or its identifier is a stored note's, the
\* collection holds the note returned.  The body "Let's discuss the meeting
\* agenda" is filed under meetings.
C21_SaveAutoCategorizes ==
  [][(/\ op'.name = "handleSaveNote"
      /\ BodyOf(op'.arg) # <<>>
      /\ (~Has(op'.arg, "folder") \/ op'.arg.folder = "")) =>
       /\ op'.ret.folder = RuleFolder(op'.arg.content)
       /\ (IsCreate(op'.arg) \/ op'.arg.id \in NoteIds(notes)) =>
            \E i \in 1..Len(notes') : notes'[i] = op'.ret
       /\ op'.arg.content = MeetingBody => op'.ret.folder = "meetings"]_vars

C21_Witness ==
  /\ op.name = "handleSaveNote"
  /\ op.arg = [content |-> MeetingBody]
  /\ notes[1].content = MeetingBody
  /\ notes[1].folder = "meetings"
  /\ notes[1] = op.ret

\* what loadData sets the folders and the last sync to when the notes
\* entry is absent
LoadedFolders ==
  IF localStorage.folders.kind = "json"
  THEN parsedFolders(localStorage.folders) ELSE folders

LoadedLastSync ==
  IF localStorage.folders # Malformed /\ localStorage.lastSync # Absent
  THEN Some(localStorage.lastSync.val) ELSE lastSync

\* C22: loading when localStorage holds none of the three entries gives a
\* collection of one note, the welcome note, filed under "quick-notes",
\* and the default folders as the folder collection.
C22_FirstRunSeedsWelcome ==
  [][(/\ op'.name = "loadData"
      /\ localStorage.notes = Absent
      /\ localStorage.folders = Absent
      /\ localStorage.lastSync = Absent) =>
       /\ Len(notes') = 1
       /\ notes'[1].id = "1"
       /\ notes'[1].title = WelcomeTitle
       /\ notes'[1].content = WelcomeContent
       /\ Has(notes'[1], "folder") /\ notes'[1].folder = "quick-notes"
       /\ IdSeq(folders') = <<"all", "quick-notes", "meetings", "ideas", "tasks">>
       /\ folders' = folders]_vars

\* the state after a load that read nothing: the note and the folders
\* carry the time of this session, not of the earlier one
C22_Witness ==
  /\ op.name = "loadData"
  /\ notes = <<welcomeNote(now)>>
  /\ folders = DEFAULT_FOLDERS(now)
  /\ lastSync = Null /\ localStorage.lastSync = Absent
  /\ ~isLoading

\* C23: loading with a notes entry that does not parse ends with isLoading
\* false and with the state that loading without a notes entry gives: the
\* welcome note as the collection, the folders and the last sync as the
\* other two entries give them.
C23_MalformedIsAbsent ==
  [][(op'.name = "loadData" /\ localStorage.notes = Malformed) =>
       /\ ~isLoading'
       /\ notes' = <<welcomeNote(now)>>
       /\ folders' = LoadedFolders
       /\ lastSync' = LoadedLastSync]_vars

\* C28: loading with a notes entry that does not parse and a folders entry
\* that does gives the stored folders as the folder collection and leaves
\* the folders entry as it was.
C28_FoldersSurviveBadNotes ==
  [][(/\ op'.name = "loadData"
      /\ localStorage.notes = Malformed
      /\ localStorage.folders.kind = "json") =>
       /\ folders' = parsedFolders(localStorage.folders)
       /\ localStorage'.folders = localStorage.folders]_vars

\* C29: whatever saveNote was called with, every note of the collection
\* has a title, a body, a list of tags and a folder.
C29_NotesFullyDefined ==
  \A i \in 1..Len(notes) :
     /\ Has(notes[i], "title")
     /\ Has(notes[i], "content")
     /\ Has(notes[i], "tags")
     /\ Has(notes[i], "folder")

\* C26: through handleCreateNote under every active folder, handleSaveNote
\* with every folder the editor offers, and deleteFolder, no note of the
\* collection is filed under "all", and the folder "all" stays in the
\* folder collection.
C26_AllIsNoNotesFolder ==
  /\ FiledUnder(notes, "all") = {}
  /\ \E i \in 1..Len(folders) : folders[i].id = "all"

\* after deleteFolder("all"), with a note that the editor moved out of
\* "quick-notes" while the active folder was "all"
C26_Witness ==
  /\ op.name = "deleteFolder" /\ op.arg = "all"
  /\ activeFolderId = "all"
  /\ \E i \in 1..Len(notes) :
       Has(notes[i], "folder") /\ notes[i].folder \notin {"quick-notes", "all"}
  /\ \E i \in 1..Len(folders) : folders[i].id = "all"

\* C27: createFolder puts one new folder at the end of the folder
\* collection and returns it, whether or not a folder of that name exists,
\* leaves the folders there were and the notes as they were, and gives the
\* new folder an identifier that no folder of the collection carries.
C27_CreateFolderAppendsFresh ==
  [][op'.name = "createFolder" =>
       /\ folders' = Append(folders, op'.ret)
       /\ op'.ret.name = op'.arg
       /\ notes' = notes
       /\ op'.ret.id \notin FolderIds(folders)]_vars

\* the calls whose timer has not fired
Pending == {syncs.pending[i] : i \in 1..Len(syncs.pending)}

\* C24: every syncNotes call eventually resolves to true; when it resolves,
\* lastSync in memory is the time of completion and the last-sync entry of
\* storage is that time; neither the call nor its completion changes the
\* note or folder collections.
C24_SyncResolvesAndRecords ==
  /\ \A n \in 1..MaxSyncs :
       (\E c \in Pending : c.n = n)
         ~> (op.name = "syncResolved" /\ op.arg = n /\ op.ret = TRUE)
  /\ [](op.name = "syncResolved" =>
          /\ op.ret = TRUE
          /\ lastSync = Some(now)
          /\ localStorage.lastSync = Iso(now))
  /\ [][op'.name \in {"syncNotes", "syncResolved"} =>
          notes' = notes /\ folders' = folders]_vars

\* the third call has resolved, a full delay after it was made, with a note
\* saved besides the welcome note
C24_Witness ==
  /\ op.name = "syncResolved"
  /\ op.arg = 3
  /\ now = op.startedAt + SYNC_DELAY
  /\ lastSync = Some(now)
  /\ localStorage.lastSync = Iso(now)
  /\ Len(notes) = 2

\* C25: of two syncNotes calls that overlap both complete; each completion
\* sets lastSync, in memory and in storage, to its own completion time, so
\* that after both the two hold the completion time of the later one; and
\* lastSync never goes back.
C25_LastWriterWins ==
  /\ \A n \in 1..MaxSyncs :
       (\E c, d \in Pending : c.n = n /\ d.n = n + 1)
         ~> (/\ op.name = "syncResolved"
             /\ op.arg = n + 1
             /\ \A c \in Pending : c.n > n + 1
             /\ lastSync = Some(now)
             /\ localStorage.lastSync = Iso(now))
  /\ [][op'.name = "syncResolved" =>
          /\ lastSync' = Some(now')
          /\ localStorage'.lastSync = Iso(now')
          /\ lastSync # Null => lastSync'[1] >= lastSync[1]]_vars

\* the second call, made a millisecond after the first and before the first
\* resolved, has resolved after it, and its later time is the one recorded
C25_Witness ==
  /\ op.name = "syncResolved"
  /\ op.arg = 2
  /\ op.startedAt = 3
  /\ now = 3 + SYNC_DELAY
  /\ syncs.pending = <<>>
  /\ lastSync = Some(3 + SYNC_DELAY)
  /\ localStorage.lastSync = Iso(3 + SYNC_DELAY)

\* C30: isSyncing is true exactly while a sync started by handleSync is in
\* flight, also when the auto-sync effect has started one while another is
\* pending; and handleSync called while offline starts no sync and leaves
\* lastSync as it was.
C30_IsSyncingWhileInFlight ==
  /\ [](isSyncing <=> \E c \in Pending : c.by = "handleSync")
  /\ [][op'.name = "handleSync" /\ ~isOnline =>
          syncs' = syncs /\ lastSync' = lastSync]_vars

====
